---- MODULE Spec2Model ----
(***************************************************************************)
(* Model of the trivia command line game (src/trivia.js).                  *)
(*                                                                         *)
(* The program is one Node.js process: a global gameState object, one      *)
(* readline interface, the setInterval countdown of a question, and the    *)
(* setTimeout callbacks that advance to the next question.  Every action   *)
(* below is one run-to-completion turn of the event loop: a line handed to *)
(* the pending rl.question callback (with the continuation of the async    *)
(* function awaiting it), one firing of the countdown interval, one firing *)
(* of a delayed callback, the completion of the question file read, or the *)
(* interrupt signal.  Time is explicit, in units of 500 ms, so that the    *)
(* 1000 ms interval and the 1500 ms / 2000 ms delays keep their order.     *)
(***************************************************************************)
EXTENDS Integers, Sequences, FiniteSets

VARIABLES
    questions,              \* gameState.questions
    currentQuestionIndex,   \* gameState.currentQuestionIndex
    score,                  \* gameState.score
    totalTime,              \* gameState.totalTime
    gameActive,             \* gameState.gameActive
    timePerQuestion,        \* gameState.timePerQuestion
    timerId,                \* gameState.timerId (Null, or the id of an interval)
    timers,                 \* the intervals that are running (setInterval, not cleared)
    delayed,                \* the pending setTimeout callbacks
    rlq,                    \* the callback rl.question holds (readline's one slot)
    loading,                \* number of main() calls awaiting loadQuestions()
    proc,                   \* "running", "closed" (rl.close() done) or "exited"
    exitCode,               \* exit status once proc = "exited"
    report,                 \* what the last endGame() since startGame() printed
    reports,                \* number of endGame() runs since the last startGame()
    games,                  \* number of startGame() runs
    source,                 \* what loadQuestions() yields (file content or fallback)
    ev,                     \* history: the handler that ran last
    incs,                   \* history: index increments since the last presentation
    gap,                    \* history: incs as seen by the last presentation / end
    quitAt,                 \* history: currentQuestionIndex when "quit" was entered
    inputFirst,             \* history: questions of this game whose line came in
                            \*          before any timeout of theirs
    timedOut,               \* history: questions of this game whose timeout acted
    spent,                  \* history: the response times (in seconds) of the
                            \*          resolutions of this game's questions
    scored                  \* history: questions of this game that added to score

vars == <<questions, currentQuestionIndex, score, totalTime, gameActive,
          timePerQuestion, timerId, timers, delayed, rlq, loading, proc,
          exitCode, report, reports, games, source, ev, incs, gap, quitAt,
          inputFirst, timedOut, spent, scored>>

----------------------------------------------------------------------------
(* Bounds of the model *)

\* Longest wait (in 500 ms units) modelled for an answer when no timer runs
MaxIdle == 2
\* Number of games the user starts in one run of the program
MaxGames == 2

(* Program constants *)

\* timePerQuestion: 30 seconds
DefaultTimePerQuestion == 30
\* setInterval(..., 1000), in 500 ms units
IntervalPeriod == 2
\* setTimeout(..., 2000) after an answer or a timeout, in 500 ms units
AdvanceDelay == 4
\* setTimeout(..., 1500) after a skip, in 500 ms units
SkipDelay == 3
\* Date.now() is in ms and answerTime is floor(ms / 1000): units per second
UnitsPerSecond == 2
\* timerId: null
Null == 0
\* process.exit(0)
ExitSuccess == 0
\* the exit status of a process ended by an unhandled rejection
ExitFailure == ExitSuccess + 1
\* "no presentation yet" in the history variables incs and gap
NoGap == 0 - 1

----------------------------------------------------------------------------
(* Strings as sequences of characters, and the conversions the code applies *)

Digits == <<"0", "1", "2", "3", "4", "5", "6", "7", "8", "9">>

IsDigit(c) == \E i \in 1..Len(Digits) : Digits[i] = c

DigitVal(c) == (CHOOSE i \in 1..Len(Digits) : Digits[i] = c) - 1

\* String.prototype.toLowerCase on the letters the input lines use
LowerChar(c) ==
    CASE c = "Q" -> "q" [] c = "U" -> "u" [] c = "I" -> "i" [] c = "T" -> "t"
      [] c = "N" -> "n" [] c = "O" -> "o" [] c = "Y" -> "y" [] c = "E" -> "e"
      [] c = "S" -> "s" [] c = "K" -> "k" [] c = "P" -> "p"
      [] OTHER -> c

toLowerCase(s) == [i \in 1..Len(s) |-> LowerChar(s[i])]

RECURSIVE TrimStart(_)
TrimStart(s) == IF s # <<>> /\ Head(s) = " " THEN TrimStart(Tail(s)) ELSE s

RECURSIVE TrimEnd(_)
TrimEnd(s) ==
    IF s # <<>> /\ s[Len(s)] = " " THEN TrimEnd(SubSeq(s, 1, Len(s) - 1)) ELSE s

\* String.prototype.trim
trim(s) == TrimEnd(TrimStart(s))

RECURSIVE DigitPrefix(_, _)
\* value of the longest prefix of digits of s, continuing from acc
DigitPrefix(s, acc) ==
    IF s # <<>> /\ IsDigit(Head(s))
    THEN DigitPrefix(Tail(s), acc * 10 + DigitVal(Head(s)))
    ELSE acc

\* parseInt(s): leading blanks skipped, an optional sign, then the longest
\* prefix of decimal digits; NaN when there is none
parseInt(s) ==
    LET t == TrimStart(s)
        neg == t # <<>> /\ Head(t) = "-"
        u == IF t # <<>> /\ Head(t) \in {"-", "+"} THEN Tail(t) ELSE t
    IN  IF u = <<>> \/ ~IsDigit(Head(u))
        THEN [nan |-> TRUE, val |-> 0]
        ELSE [nan |-> FALSE,
              val |-> IF neg THEN 0 - DigitPrefix(u, 0) ELSE DigitPrefix(u, 0)]

\* the lines the user may type at any prompt
Lines ==
    { <<"1">>, <<"2">>, <<"3">>, <<"4">>, <<"5">>, <<"0">>, <<>>,
      <<"2", " ">>, <<"3", "a">>,
      <<"s", "k", "i", "p">>, <<"Q", "U", "I", "T">>,
      <<"N", "o">>, <<"y", "e", "s">> }

\* the delays (in 500 ms units) after which the user enters the answer to a
\* question: at once, after 1 s, just under and at half of the 30 s, at the
\* 30 s of the timeout, and at the 2 s after it when the advance is due
ThinkTimes == {0, 2, 29, 30, 60, 64}

\* past the last of them the time a prompt has waited is not read any more
ElapsedCap == (CHOOSE m \in ThinkTimes : \A x \in ThinkTimes : x <= m) + 1

----------------------------------------------------------------------------
(* The question lists *)

\* the fallback questions of loadQuestions()
FallbackQuestions ==
    << [question |-> "What is 2 + 2?", options |-> <<"3", "4", "5", "6">>,
        answer |-> 1, category |-> "Math", points |-> 5],
       [question |-> "What color is the sky?",
        options |-> <<"Red", "Green", "Blue", "Yellow">>,
        answer |-> 2, category |-> "Science", points |-> 5] >>

\* a questions.json of one question
FileQuestions ==
    << [question |-> "Who wrote it?", options |-> <<"a", "b", "c", "d">>,
        answer |-> 3, category |-> "History", points |-> 3] >>

\* what loadQuestions() may leave in gameState.questions: the parsed file, or
\* the fallback when the read fails
Sources == {FallbackQuestions, FileQuestions}

----------------------------------------------------------------------------
(* The program state as one record, so that the functions of the program   *)
(* compose the way their calls do                                          *)

Cur ==
    [questions |-> questions, idx |-> currentQuestionIndex, score |-> score,
     totalTime |-> totalTime, active |-> gameActive, tpq |-> timePerQuestion,
     timerId |-> timerId, timers |-> timers, delayed |-> delayed, rlq |-> rlq,
     loading |-> loading, proc |-> proc, exitCode |-> exitCode,
     report |-> report, reports |-> reports, games |-> games,
     incs |-> incs, gap |-> gap, quitAt |-> quitAt,
     inputFirst |-> inputFirst, timedOut |-> timedOut, spent |-> spent,
     scored |-> scored]

Apply(s, e) ==
    /\ questions' = s.questions
    /\ currentQuestionIndex' = s.idx
    /\ score' = s.score
    /\ totalTime' = s.totalTime
    /\ gameActive' = s.active
    /\ timePerQuestion' = s.tpq
    /\ timerId' = s.timerId
    /\ timers' = s.timers
    /\ delayed' = s.delayed
    /\ rlq' = s.rlq
    /\ loading' = s.loading
    /\ proc' = s.proc
    /\ exitCode' = s.exitCode
    /\ report' = s.report
    /\ reports' = s.reports
    /\ games' = s.games
    /\ incs' = s.incs
    /\ gap' = s.gap
    /\ quitAt' = s.quitAt
    /\ inputFirst' = s.inputFirst
    /\ timedOut' = s.timedOut
    /\ spent' = s.spent
    /\ scored' = s.scored
    /\ ev' = e
    /\ UNCHANGED source

\* setTimeout(cb, delay): delayed[kind][due] counts the pending callbacks
DelayKinds == {"advance", "next"}

NoDelayed == [k \in DelayKinds |-> [d \in 0..AdvanceDelay |-> 0]]

SetTimeout(dl, kind, delay) == [dl EXCEPT ![kind][delay] = @ + 1]

\* the two behaviours of Node.js the program can run on: an unhandled
\* rejection and rl.question() after rl.close() are reported and ignored
\* ("legacy"), or end the process ("modern")
Runtimes == {"legacy", "modern"}

\* the callback rl.question holds, with the locals of the async function that
\* awaits it: kind (which prompt), q (index of currentQuestion), elapsed (time
\* since startTime), chained (called through startGame, so that main's catch
\* sees what it throws), tid (the interval started with it) and answered
NoCallback ==
    [kind |-> "none", q |-> 0, elapsed |-> 0, chained |-> FALSE, tid |-> Null,
     answered |-> FALSE]

Callback(kind) == [NoCallback EXCEPT !.kind = kind]

NoReport == [answered |-> 0, total |-> 0, score |-> 0, time |-> 0, stats |-> {}]

\* a slip: the status is set and the process runs on
Exit_RunsOn(s, status) == [s EXCEPT !.exitCode = status]

\* the process ends with the given status: its timers, delayed callbacks and
\* pending prompt end with it
Exit(s, status) ==
    [s EXCEPT !.proc = "exited", !.exitCode = status, !.timers = {},
              !.delayed = NoDelayed, !.rlq = NoCallback]

\* a process ended by an uncaught error
Crash(s) == Exit(s, ExitFailure)

\* rl.close()
RlClose(s) == [s EXCEPT !.proc = "closed"]

\* rl.question(prompt, cb): readline keeps one callback; while one is held a
\* further call only prints the prompt again and its callback is dropped.
\* On a closed interface the callback is never called (legacy) or the call
\* throws inside the async caller started by a timer (modern).
RlQuestion(s, cb, rt) ==
    IF s.proc = "closed"
    THEN IF rt = "modern" THEN Crash(s) ELSE s
    ELSE IF s.rlq.kind # "none" THEN s ELSE [s EXCEPT !.rlq = cb]

\* a slip: nothing is cleared
ClearInterval_Nothing(ts, id) == ts

\* clearInterval(id)
ClearInterval(ts, id) == {t \in ts : t.id # id}

\* the handle setInterval returns: one that no running interval has and that
\* the pending prompt does not refer to
NewTimerId(ts, w) ==
    LET used == {t.id : t \in ts} \cup {w.tid}
    IN  CHOOSE i \in 1..(Cardinality(used) + 1) :
            i \notin used /\ \A j \in 1..(i - 1) : j \in used


----------------------------------------------------------------------------
(* The functions of the program *)

RECURSIVE SumPoints(_, _)
\* reduce((total, q) => total + q.points, 0) over the questions with index in I
SumPoints(qs, I) ==
    IF I = {} THEN 0
    ELSE LET i == CHOOSE j \in I : TRUE IN qs[i].points + SumPoints(qs, I \ {i})

\* the statistics endGame() prints
Summarize(s) ==
    LET qs == s.questions
        questionsAnswered == s.idx
        reached == {i \in 1..Len(qs) : i - 1 < questionsAnswered}
        In(c) == {i \in reached : qs[i].category = c}
    IN  [answered |-> questionsAnswered,
         total |-> Len(qs),
         score |-> s.score,
         time |-> s.totalTime,
         stats |-> {[category |-> c, questions |-> Cardinality(In(c)),
                     points |-> SumPoints(qs, In(c))] :
                    c \in {qs[i].category : i \in reached}}]

\* endGame()
EndGame(s, rt) ==
    LET s1 == [s EXCEPT !.active = FALSE,
                        !.timers = IF s.timerId # Null
                                   THEN ClearInterval(@, s.timerId) ELSE @,
                        !.report = Summarize(s),
                        !.reports = @ + 1,
                        !.incs = NoGap]
    IN  RlQuestion(s1, Callback("playAgain"), rt)

\* a slip: the index moved on twice
IncrementIndex_Twice(i) == i + 2

\* a slip: the index does not move on
IncrementIndex_Stays(i) == i

\* currentQuestionIndex++
IncrementIndex(i) == i + 1

Advance(s) ==
    [s EXCEPT !.idx = IncrementIndex(@),
              !.incs = IF @ = NoGap THEN @ ELSE @ + 1]

\* startTimer(callback): the interval of one question
StartTimer(s, id) ==
    [id |-> id, timeLeft |-> s.tpq, due |-> IntervalPeriod, answered |-> FALSE,
     q |-> s.idx]

\* nextQuestion() up to its await: the end of the game, or the presentation of
\* questions[currentQuestionIndex], its countdown and its prompt
NextQuestion(s, chained, rt) ==
    IF ~s.active \/ s.idx >= Len(s.questions)
    THEN EndGame(IF s.active THEN [s EXCEPT !.gap = s.incs] ELSE s, rt)
    ELSE LET id == IF s.tpq > 0
                   THEN NewTimerId(ClearInterval(s.timers, s.timerId), s.rlq)
                   ELSE Null
             s1 == [s EXCEPT !.gap = s.incs, !.incs = 0]
             s2 == IF s.tpq > 0
                   THEN [s1 EXCEPT !.timers = ClearInterval(@, s.timerId)
                                                \cup {StartTimer(s, id)},
                                   !.timerId = id]
                   ELSE s1
         IN  RlQuestion(s2,
                        [kind |-> "answer", q |-> s.idx, elapsed |-> 0,
                         chained |-> chained, tid |-> id, answered |-> FALSE],
                        rt)

\* a slip: the bonus not halved
TimeBonus_Full(points) == points

\* Math.floor(questionObj.points * 0.5)
TimeBonus(points) == points \div 2

\* gameState.timePerQuestion > 0 && answerTime < gameState.timePerQuestion / 2
BonusApplies(tpq, answerTime) == tpq > 0 /\ 2 * answerTime < tpq

\* a slip: no upper limit on the option number
IsInvalidIndex_NoUpper(parsed, userIndex, options) == parsed.nan \/ userIndex < 0

\* isNaN(userIndex) || userIndex < 0 || userIndex >= questionObj.options.length
IsInvalidIndex(parsed, userIndex, options) ==
    parsed.nan \/ userIndex < 0 \/ userIndex >= Len(options)

\* processAnswer(questionObj, userAnswer, answerTime): the state it leaves,
\* what it returns, the message it prints, and whether it threw (the branch of
\* a correct answer without bonus reads the undeclared pointsObj before it
\* prints and before the score is updated)
ProcessAnswer(s, questionObj, userAnswer, answerTime) ==
    LET correctIndex == questionObj.answer
        parsed == parseInt(userAnswer)
        userIndex == parsed.val - 1
    IN  IF IsInvalidIndex(parsed, userIndex, questionObj.options)
        THEN [s |-> s, ret |-> FALSE, thrown |-> FALSE, msg |-> "invalid"]
        ELSE IF userIndex = correctIndex
        THEN IF BonusApplies(s.tpq, answerTime)
             THEN [s |-> [s EXCEPT !.score = @ + questionObj.points
                                                + TimeBonus(questionObj.points)],
                   ret |-> TRUE, thrown |-> FALSE, msg |-> "correct"]
             ELSE [s |-> s, ret |-> FALSE, thrown |-> TRUE, msg |-> "none"]
        ELSE [s |-> s, ret |-> FALSE, thrown |-> FALSE, msg |-> "incorrect"]

\* Math.floor((Date.now() - startTime) / 1000)
AnswerTime(elapsed) == elapsed \div UnitsPerSecond

\* the timer cleared once the line is in: clearInterval(gameState.timerId)
ClearOnInput(s) ==
    IF s.tpq > 0 THEN [s EXCEPT !.timers = ClearInterval(@, s.timerId)] ELSE s

\* "skip": currentQuestionIndex++, then nextQuestion() after 1500 ms
SkipQuestion(s) ==
    [Advance(s) EXCEPT !.delayed = SetTimeout(@, "next", SkipDelay)]

\* nextQuestion() from its await on: w is the callback that got the line
AnswerContinuation(s, w, line, rt) ==
    LET userAnswer == trim(line)
        answerTime == AnswerTime(w.elapsed)
        s1 == ClearOnInput([s EXCEPT !.inputFirst = @ \cup ({w.q} \ s.timedOut)])
    IN  IF toLowerCase(userAnswer) = <<"q", "u", "i", "t">>
        THEN EndGame([s1 EXCEPT !.quitAt = s.idx], rt)
        ELSE IF toLowerCase(userAnswer) = <<"s", "k", "i", "p">>
        THEN SkipQuestion([s1 EXCEPT !.spent = @ + answerTime])
        ELSE LET r == ProcessAnswer(s1, s.questions[w.q + 1], userAnswer, answerTime)
             IN  IF r.thrown
                 THEN IF w.chained THEN RlClose(r.s)
                      ELSE IF rt = "modern" THEN Crash(r.s) ELSE r.s
                 ELSE [Advance(r.s) EXCEPT
                          !.totalTime = @ + answerTime,
                          !.spent = @ + answerTime,
                          !.scored = IF r.ret THEN @ \cup {w.q} ELSE @,
                          !.delayed = SetTimeout(@, "next", AdvanceDelay)]

\* startGame() up to its await
StartGame(s) ==
    RlQuestion([s EXCEPT !.active = TRUE, !.idx = 0, !.score = 0, !.totalTime = 0,
                         !.report = NoReport, !.reports = 0, !.games = @ + 1,
                         !.incs = NoGap,
                         !.gap = NoGap, !.quitAt = NoGap, !.inputFirst = {},
                         !.timedOut = {}, !.spent = 0,
                         !.scored = {}],
               Callback("timerPrompt"), "legacy")

\* startGame() from its await on
TimerPrompt(s, line, rt) ==
    LET useTimer == trim(line)
        s1 == IF toLowerCase(useTimer) = <<"n", "o">> THEN [s EXCEPT !.tpq = 0] ELSE s
    IN  NextQuestion(s1, TRUE, rt)

\* showMenu() up to its await; what rl.question throws here main() catches
ShowMenu(s) == RlQuestion(s, Callback("menu"), "legacy")

\* showMenu() from its await on
MenuChoice(s, line) ==
    LET choice == trim(line)
    IN  CASE choice = <<"1">> -> StartGame(s)
          [] choice = <<"2">> -> ShowMenu(s)
          [] choice = <<"3">> -> RlClose(s)
          [] OTHER -> ShowMenu(s)

\* the callback of 'Play again? (yes/no): ' in endGame(); main() runs up to its
\* await of loadQuestions()
PlayAgain(s, answer) ==
    IF toLowerCase(answer) = <<"y", "e", "s">>
    THEN [s EXCEPT !.loading = @ + 1]
    ELSE RlClose(s)

----------------------------------------------------------------------------
(* The actions: one per turn of the event loop *)

Init ==
    /\ questions = <<>>
    /\ currentQuestionIndex = 0
    /\ score = 0
    /\ totalTime = 0
    /\ gameActive = FALSE
    /\ timePerQuestion = DefaultTimePerQuestion
    /\ timerId = Null
    /\ timers = {}
    /\ delayed = NoDelayed
    /\ rlq = NoCallback
    /\ loading = 1
    /\ proc = "running"
    /\ exitCode = ExitSuccess
    /\ report = NoReport
    /\ reports = 0
    /\ games = 0
    /\ source \in Sources
    /\ ev = "main"
    /\ incs = NoGap
    /\ gap = NoGap
    /\ quitAt = NoGap
    /\ inputFirst = {}
    /\ timedOut = {}
    /\ spent = 0
    /\ scored = {}

\* loadQuestions() settles: main() prints the summary and shows the menu
LoadDone ==
    /\ proc # "exited"
    /\ loading > 0
    /\ Apply(ShowMenu([Cur EXCEPT !.questions = source, !.loading = @ - 1]),
             "load")

\* what the callback readline holds, and the async function awaiting it, make
\* of the line
LineResult(line, rt) ==
    LET w == rlq
        s == [Cur EXCEPT !.rlq = NoCallback]
    IN  CASE w.kind = "menu" -> MenuChoice(s, line)
          [] w.kind = "timerPrompt" -> TimerPrompt(s, line, rt)
          [] w.kind = "answer" -> AnswerContinuation(s, w, line, rt)
          [] w.kind = "playAgain" -> PlayAgain(s, line)

\* the user enters a line: readline hands it to the callback it holds
LineStep(line, rt) ==
    /\ proc = "running"
    /\ rlq.kind # "none"
    /\ rlq.kind = "answer" => rlq.elapsed \in ThinkTimes
    /\ rlq.kind = "menu" /\ trim(line) = <<"1">> => games < MaxGames
    /\ Apply(LineResult(line, rt), rlq.kind)

Line == \E line \in Lines, rt \in Runtimes : LineStep(line, rt)

\* the callback given to startTimer(): the first timeout of a question sets
\* answered and schedules the advance
TimeoutCallback(s, t) ==
    IF ~t.answered
    THEN [s EXCEPT !.delayed = SetTimeout(@, "advance", AdvanceDelay),
                   !.timedOut = @ \cup {t.q},
                   !.spent = @ + s.tpq,
                   !.rlq = IF @.kind = "answer" /\ @.tid = t.id
                           THEN [@ EXCEPT !.answered = TRUE] ELSE @]
    ELSE s

\* timeLeft--; below 0 the count differs only in the line printed, and the
\* model keeps it at 0 (a countdown that is never cleared runs on for ever)
CountDown(timeLeft) == IF timeLeft > 0 THEN timeLeft - 1 ELSE timeLeft

\* one firing of the interval of startTimer()
TimerFire ==
    /\ proc # "exited"
    /\ \E t \in timers :
          /\ t.due = 0
          /\ LET timeLeft == CountDown(t.timeLeft)
                 t1 == [t EXCEPT !.timeLeft = timeLeft, !.due = IntervalPeriod,
                                 !.answered = @ \/ timeLeft <= 0]
                 s == [Cur EXCEPT !.timers = (@ \ {t}) \cup {t1}]
             IN  IF timeLeft <= 0
                 THEN Apply(TimeoutCallback(s, t),
                            IF t.answered THEN "interval" ELSE "timeout")
                 ELSE Apply(s, "interval")

\* a delayed callback fires: the advance after a timeout
\* (currentQuestionIndex++; nextQuestion()) or nextQuestion() alone
DelayedFire ==
    /\ proc # "exited"
    /\ \E kind \in DelayKinds, rt \in Runtimes :
          /\ delayed[kind][0] > 0
          /\ LET s == [Cur EXCEPT !.delayed[kind][0] = @ - 1]
             IN  Apply(NextQuestion(IF kind = "advance" THEN Advance(s) ELSE s,
                                    FALSE, rt),
                       kind)

Pending(dl) == \E k \in DelayKinds, d \in 0..AdvanceDelay : dl[k][d] > 0

\* 500 ms pass; nothing that is due is left waiting
Tick ==
    /\ proc # "exited"
    /\ \A t \in timers : t.due > 0
    /\ \A k \in DelayKinds : delayed[k][0] = 0
    /\ \/ timers # {}
       \/ Pending(delayed)
       \/ proc = "running" /\ rlq.kind = "answer" /\ rlq.elapsed < MaxIdle
    /\ Apply([Cur EXCEPT
                 !.timers = {[t EXCEPT !.due = @ - 1] : t \in @},
                 !.delayed = [k \in DelayKinds |->
                                 [d \in 0..AdvanceDelay |->
                                     IF d < AdvanceDelay THEN @[k][d + 1] ELSE 0]],
                 !.rlq = IF @.kind = "answer" /\ @.elapsed < ElapsedCap
                         THEN [@ EXCEPT !.elapsed = @ + 1] ELSE @],
             "tick")

\* process.on('SIGINT')
Sigint ==
    /\ proc # "exited"
    /\ Apply(Exit(RlClose([Cur EXCEPT !.timers = IF timerId # Null
                                                  THEN ClearInterval(@, timerId)
                                                  ELSE @]),
                   ExitSuccess),
             "sigint")

Next == LoadDone \/ Line \/ TimerFire \/ DelayedFire \/ Tick \/ Sigint

Spec == Init /\ [][Next]_vars

----------------------------------------------------------------------------
(* The claims *)

\* C1: in every reachable state 0 <= currentQuestionIndex <= number of
\* questions.  The code breaks it: a line entered after the timeout of the
\* last question and the advance of that timeout both increment the index.
C1_IndexInRange ==
    currentQuestionIndex >= 0 /\ currentQuestionIndex <= Len(questions)

\* C2: between the presentation of a question and the next presentation (or
\* the end of the game once the questions are exhausted) the index has been
\* incremented exactly once.  The code breaks it: timeout and line both act.
C2_OneAdvancePerQuestion == gap \in {NoGap, 1}

\* C3: a line that arrives for a question after the timeout of that question
\* has acted changes neither score, totalTime nor currentQuestionIndex and
\* schedules no advance.  The code breaks it: the continuation of
\* nextQuestion() never reads `answered`.
C3_LateInputIgnored ==
    [][(rlq.kind = "answer" /\ rlq.answered /\ ev' = "answer")
          => UNCHANGED <<score, totalTime, currentQuestionIndex, delayed>>]_vars

\* C4: once the line for a question is in before any timeout of that
\* question, no timeout acts for that question afterwards.  The code breaks
\* it in a game without timer in which a delayed nextQuestion() of the game
\* before started a countdown during the timer prompt: no line clears it.
C4_NoTimeoutAfterInput == inputFirst \cap timedOut = {}

\* the line is the number of the correct option of question q
CorrectLine(line, q) ==
    LET p == parseInt(trim(line)) IN ~p.nan /\ p.val - 1 = q.answer

\* the question the pending prompt was shown for
Asked == questions[rlq.q + 1]

\* the values of `answer` the questions have
AnswerIndexes ==
    UNION {{qs[i].answer : i \in 1..Len(qs)} : qs \in Sources}

\* for a question of answer a: the lines that are its correct option number
CorrectLines ==
    [a \in AnswerIndexes |-> {line \in Lines : CorrectLine(line, [answer |-> a])}]

\* the lines that are the command "skip"
SkipLines ==
    {line \in Lines : toLowerCase(trim(line)) = <<"s", "k", "i", "p">>}

\* C5: with the timer disabled a correct option number adds exactly
\* question.points to score and the game advances to the next question.  The
\* code breaks it: the branch without bonus throws on `pointsObj`.
C5_CorrectNoTimer ==
    [][\A line \in Lines, rt \in Runtimes :
          (/\ rlq.kind = "answer"
           /\ timePerQuestion = 0
           /\ CorrectLine(line, Asked)
           /\ LineStep(line, rt))
          => /\ score' = score + Asked.points
             /\ currentQuestionIndex' = currentQuestionIndex + 1
             /\ Pending(delayed')]_vars

\* C6: with the timer enabled a correct option number entered after less than
\* half of timePerQuestion adds exactly points + floor(points * 0.5) to score.
C6_CorrectWithBonus ==
    [][(/\ rlq.kind = "answer"
        /\ ev' = "answer"
        /\ timePerQuestion > 0
        /\ 2 * rlq.elapsed < timePerQuestion * UnitsPerSecond)
          => \A line \in CorrectLines[Asked.answer], rt \in Runtimes :
                LineStep(line, rt)
                   => score' = score + Asked.points + (Asked.points \div 2)]_vars

\* a correct answer to the first fallback question 14.5 s after it was shown
\* earned 5 + 2 points
C6_Witness ==
    /\ ev = "answer"
    /\ questions = FallbackQuestions
    /\ timePerQuestion > 0
    /\ currentQuestionIndex = 1
    /\ totalTime = 14
    /\ score = 7

\* C7: with the timer enabled a correct option number entered after half of
\* timePerQuestion or more, and before the timeout, adds exactly
\* question.points to score and the game advances.  The code breaks it: the
\* branch without bonus throws on `pointsObj`.
C7_CorrectWithoutBonus ==
    [][\A line \in Lines, rt \in Runtimes :
          (/\ rlq.kind = "answer"
           /\ timePerQuestion > 0
           /\ 2 * rlq.elapsed >= timePerQuestion * UnitsPerSecond
           /\ ~rlq.answered
           /\ CorrectLine(line, Asked)
           /\ LineStep(line, rt))
          => /\ score' = score + Asked.points
             /\ currentQuestionIndex' = currentQuestionIndex + 1
             /\ Pending(delayed')]_vars

\* C8: "skip" leaves score unchanged and increments currentQuestionIndex by
\* exactly 1; a timeout leaves score and index unchanged and schedules the
\* advance, which leaves score unchanged and increments the index by exactly 1.
C8_SkipAndTimeout ==
    [][/\ (rlq.kind = "answer" /\ ev' = "answer")
             => \A line \in SkipLines, rt \in Runtimes :
                   LineStep(line, rt)
                      => /\ score' = score
                         /\ currentQuestionIndex' = currentQuestionIndex + 1
       /\ ev' = "timeout"
             => /\ score' = score
                /\ currentQuestionIndex' = currentQuestionIndex
                /\ delayed'["advance"][AdvanceDelay] = delayed["advance"][AdvanceDelay] + 1
       /\ ev' = "advance"
             => /\ score' = score
                /\ currentQuestionIndex' = currentQuestionIndex + 1]_vars

\* the first question was skipped: nextQuestion() is due in 1500 ms
C8_Witness ==
    /\ ev = "answer"
    /\ delayed["next"][SkipDelay] = 1
    /\ currentQuestionIndex = 1
    /\ score = 0
    /\ gameActive

\* C9: after "quit" at question k the game has ended with
\* currentQuestionIndex = k and the report is that of the first k questions,
\* also when a timeout of that question has fired before.  The code breaks
\* it: the advance of that timeout still increments the index and reports.
C9_QuitKeepsIndex ==
    quitAt # NoGap
        => /\ ~gameActive
           /\ currentQuestionIndex = quitAt
           /\ report.answered = quitAt
           /\ report.stats = Summarize([Cur EXCEPT !.idx = quitAt]).stats

\* C10: once a game has ended, its currentQuestionIndex, score and totalTime
\* never change and it is not reported again.  The code breaks it: a delayed
\* callback that is still pending runs nextQuestion() and endGame() again.
C10_EndedIsTerminal ==
    [][(~gameActive /\ reports >= 1 /\ ~gameActive')
          => /\ UNCHANGED <<currentQuestionIndex, score, totalTime>>
             /\ reports' = reports]_vars

\* C11: in every game, also one started through "play again", a line other
\* than "no" at the timer prompt enables the timer of that game
\* (timePerQuestion > 0 from then on), whatever was chosen in earlier games.
\* The code breaks it: "no" sets the global timePerQuestion to 0 and nothing
\* sets it back to 30.
C11_TimerChosenPerGame ==
    [][\A line \in Lines, rt \in Runtimes :
          (/\ rlq.kind = "timerPrompt"
           /\ toLowerCase(trim(line)) # <<"n", "o">>
           /\ LineStep(line, rt))
          => timePerQuestion' > 0]_vars

\* The event loop runs every callback that is due (the file read, the
\* interval, the delayed callbacks, the passing of time), and the player
\* enters a line whenever a prompt waits for one: each presented question is
\* resolved.  The interrupt signal may never come.
LiveSpec ==
    /\ Spec
    /\ WF_vars(LoadDone)
    /\ WF_vars(TimerFire)
    /\ WF_vars(DelayedFire)
    /\ WF_vars(Tick)
    /\ WF_vars(Line)

\* the process was ended by the interrupt signal
Interrupted == proc = "exited" /\ ev = "sigint"

\* C12: a game whose questions are all resolved (by an answer, "skip" or a
\* timeout), or that the player quits, eventually ends and is reported.  The
\* code breaks it: a correct answer without bonus throws in processAnswer(),
\* the index is not incremented, no next question is scheduled and endGame()
\* never runs, so that game is never reported.
C12_GameEndsReported == gameActive ~> (reports >= 1 \/ Interrupted)

\* C13: when a game ends, totalTime is the sum of the response times of its
\* resolved questions: the seconds until the line of an answered or skipped
\* question, and the full timePerQuestion of a question that timed out.  The
\* code breaks it: the "skip" branch returns before totalTime is updated and
\* the timeout callback adds nothing.
C13_TotalTimeIsSum == reports >= 1 => report.time = spent

\* C14: once a game has been started, gameActive is true exactly when
\* currentQuestionIndex < number of questions and the game was neither quit
\* nor ended.  The code breaks it: the last answer increments the index to
\* the number of questions, and gameActive stays true until the delayed
\* nextQuestion() calls endGame().
C14_ActiveIffQuestionsLeft ==
    games >= 1
        => (gameActive <=> (currentQuestionIndex < Len(questions) /\ reports = 0))

\* the line is a command of the answer prompt, not an answer
IsCommand(line) ==
    toLowerCase(trim(line)) \in {<<"q", "u", "i", "t">>, <<"s", "k", "i", "p">>}

\* the numbers of options the questions have
OptionCounts ==
    UNION {{Len(qs[i].options) : i \in 1..Len(qs)} : qs \in Sources}

\* for a question of n options: the lines that are answers and do not parse
\* to an integer in 1 .. n
NotOptionNumbers ==
    [n \in OptionCounts |->
        {line \in Lines :
            /\ ~IsCommand(line)
            /\ LET p == parseInt(trim(line))
               IN  p.nan \/ p.val < 1 \/ p.val > n}]

\* C15: an answer that does not parse to an integer in 1 .. number of options
\* is reported as invalid and does not end the game or the process: score is
\* unchanged, currentQuestionIndex advances by exactly 1 and nextQuestion()
\* (the next question, or the end of the game) is scheduled.  Stated of every
\* state in which the answer prompt can get a line, and of what LineStep
\* makes of every such line there.
C15_InvalidAnswerAdvances ==
    (proc = "running" /\ rlq.kind = "answer" /\ rlq.elapsed \in ThinkTimes)
        => \A line \in NotOptionNumbers[Len(Asked.options)], rt \in Runtimes :
              LET r == LineResult(line, rt)
              IN  /\ ProcessAnswer(Cur, Asked, trim(line),
                                   AnswerTime(rlq.elapsed)).msg = "invalid"
                  /\ r.score = score
                  /\ r.idx = currentQuestionIndex + 1
                  /\ r.delayed["next"][AdvanceDelay]
                        = delayed["next"][AdvanceDelay] + 1
                  /\ r.active = gameActive
                  /\ r.proc = proc

\* an answer that is no option number was given to the one question of the
\* file 1 s after it was shown: nothing scored, the end of the game is due
C15_Witness ==
    /\ ev = "answer"
    /\ questions = FileQuestions
    /\ currentQuestionIndex = 1
    /\ score = 0
    /\ spent = 1
    /\ totalTime = 1
    /\ delayed["next"][AdvanceDelay] = 1
    /\ gameActive
    /\ proc = "running"

\* C16: in whatever state it arrives (menu, prompt with or without a running
\* countdown, delayed advance pending, play-again prompt) the interrupt signal
\* ends the process at once with exit status 0: no countdown and no delayed
\* callback is left, the game state is as it was, and nothing changes
\* afterwards.
C16_InterruptTerminates ==
    [][/\ Sigint
             => /\ proc' = "exited"
                /\ exitCode' = ExitSuccess
                /\ timers' = {}
                /\ ~Pending(delayed')
                /\ rlq'.kind = "none"
                /\ UNCHANGED <<questions, currentQuestionIndex, score, totalTime,
                               gameActive, timePerQuestion, report, reports>>
       /\ proc = "exited" => UNCHANGED vars]_vars

\* the signal ended a game with timer that was still active after the
\* first of its two questions was resolved, before any report
C16_Witness ==
    /\ ev = "sigint"
    /\ proc = "exited"
    /\ exitCode = ExitSuccess
    /\ gameActive
    /\ timePerQuestion > 0
    /\ timerId # Null
    /\ currentQuestionIndex = 1
    /\ Len(questions) = 2
    /\ reports = 0

\* C17: a line accepted as an answer is evaluated against
\* questions[currentQuestionIndex] as it is when the line comes in, never
\* against an earlier question.  The code breaks it: after a timeout and its
\* advance the callback of the timed-out question is still the one readline
\* holds (the rl.question of the next question is dropped), and it evaluates
\* the line against the question it was created for.
C17_AnswerForCurrentQuestion ==
    [][\A line \in Lines, rt \in Runtimes :
          (/\ rlq.kind = "answer"
           /\ ~IsCommand(line)
           /\ LineStep(line, rt))
          => rlq.q = currentQuestionIndex]_vars

\* the game is over: endGame() has run and no new game was started
Ended == ~gameActive /\ reports >= 1

\* C18: at most one countdown interval is running, it is the one whose handle
\* gameState.timerId holds, and none is running once the game has ended.
C18_OneTimer ==
    /\ Cardinality(timers) <= 1
    /\ \A t \in timers : t.id = timerId
    /\ Ended => timers = {}

\* the countdown of the second question runs, that of the first is gone
C18_Witness ==
    /\ gameActive
    /\ currentQuestionIndex = 1
    /\ rlq.kind = "answer"
    /\ rlq.q = 1
    /\ \E t \in timers : t.id = timerId /\ t.q = 1 /\ t.timeLeft < timePerQuestion

\* the most a question can add to score: its points and the time bonus
MaxContribution(q) == q.points + (q.points \div 2)

RECURSIVE SumMaxContribution(_, _)
SumMaxContribution(qs, I) ==
    IF I = {} THEN 0
    ELSE LET i == CHOOSE j \in I : TRUE
         IN  MaxContribution(qs[i]) + SumMaxContribution(qs, I \ {i})

\* C19: within a game score never decreases, it changes only when a correct
\* answer is processed, and a question adds to it at most once; so in every
\* state score <= sum over the questions of points + floor(points * 0.5).
C19_ScoreBounded ==
    /\ [](score <= SumMaxContribution(questions, 1..Len(questions)))
    /\ [][games' = games
             => /\ score' >= score
                /\ score' # score
                      => /\ rlq.kind = "answer"
                         /\ rlq.q \notin scored
                         /\ score' <= score + MaxContribution(Asked)
                         /\ \E line \in Lines, rt \in Runtimes :
                               CorrectLine(line, Asked) /\ LineStep(line, rt)]_vars

\* both fallback questions were answered correctly within half of the time:
\* each added 5 + 2, and score is at the bound
C19_Witness ==
    /\ questions = FallbackQuestions
    /\ scored = {0, 1}
    /\ score = 14
    /\ score = SumMaxContribution(questions, 1..Len(questions))

----------------------------------------------------------------------------
TypeOK ==
    /\ currentQuestionIndex \in Nat
    /\ score \in Nat
    /\ totalTime \in Nat
    /\ gameActive \in BOOLEAN
    /\ timePerQuestion \in {0, DefaultTimePerQuestion}
    /\ proc \in {"running", "closed", "exited"}
    /\ Cardinality(timers) <= 1

====
